---- MODULE Spec2Model ----
(***************************************************************************)
(* Model of policy_maker/app.py: the CloudFormation custom resource that   *)
(* attaches, re-attaches and removes the access policy of an S3 bucket.    *)
(*                                                                         *)
(* Python strings are sequences of one-character strings, so that          *)
(* str.lower(), concatenation (f-strings) and emptiness are computed and   *)
(* not assumed.  Literals that the code never inspects (Sid, Effect,       *)
(* action patterns, exception messages) stay TLA+ strings.                 *)
(***************************************************************************)
EXTENDS Integers, Sequences, FiniteSets, TLC

VARIABLES
  tags,        \* S3: bucket -> tagging of the bucket (get_bucket_tagging)
  policy,      \* S3: bucket -> <<>> (no policy) or <<document>> (attached)
  pc,          \* "idle" | "invoked" | "returned": position of handler()
  event,       \* the event handed to handler()
  context,     \* the Lambda context handed to handler()
  result,      \* what create()/delete() returned or raised
  calls,       \* the S3 calls the handler made in this invocation, in order
  deliveries,  \* how often the present event has been delivered in a row
  prev         \* the result of the previous delivery of the present event

vars == <<tags, policy, pc, event, context, result, calls, deliveries, prev>>

(***************************************************************************)
(* Bounds of the model.                                                    *)
(***************************************************************************)
\* longest ExtraPrincipalArns list an event carries
MaxExtras == 2
\* how often the orchestrator delivers one event in a row
MaxDeliveries == 3

(***************************************************************************)
(* Strings.                                                                *)
(***************************************************************************)
LowerChar(c) ==
  CASE c = "T" -> "t"
    [] c = "R" -> "r"
    [] c = "U" -> "u"
    [] c = "E" -> "e"
    [] c = "F" -> "f"
    [] c = "A" -> "a"
    [] c = "L" -> "l"
    [] c = "S" -> "s"
    [] c = "Y" -> "y"
    [] OTHER -> c

\* str.lower()
Lower(s) == [i \in 1..Len(s) |-> LowerChar(s[i])]

\* sub in s
Contains(s, sub) ==
  \E i \in 0..(Len(s) - Len(sub)) : SubSeq(s, i + 1, i + Len(sub)) = sub

\* s.strip() = '' : only whitespace, or nothing at all
IsBlank(s) == \A i \in 1..Len(s) : s[i] = " "

S_true == <<"t", "r", "u", "e">>
S_false == <<"f", "a", "l", "s", "e">>
S_arn_s3 == <<"a", "r", "n", ":", "a", "w", "s", ":", "s", "3", ":", ":", ":">>
S_objects == <<"/", "*">>
S_BucketPolicy_ == <<"B", "u", "c", "k", "e", "t", "P", "o", "l", "i", "c", "y", "_">>
S_underscore == <<"_">>

(***************************************************************************)
(* Python values of the resource properties: a key that is absent, a str,  *)
(* or a list of str.  One record shape for all three.                      *)
(***************************************************************************)
Absent == [t |-> "absent", s |-> <<>>, l |-> <<>>]
Str(x) == [t |-> "str", s |-> x, l |-> <<>>]
List(x) == [t |-> "list", s |-> <<>>, l |-> x]

\* bool(x) of Python: None (a missing key), '' and [] are falsy
Truthy(x) ==
  CASE x.t = "absent" -> FALSE
    [] x.t = "str" -> Len(x.s) > 0
    [] x.t = "list" -> Len(x.l) > 0

\* str(parameters.get(key, default)) for a str default
StrOrDefault(x, default) == IF x.t = "absent" THEN default ELSE x.s

(***************************************************************************)
(* Exceptions and return values.                                           *)
(***************************************************************************)
NoError == [type |-> "", msg |-> ""]
MissingParameter == [type |-> "Exception", msg |-> "Required parameters: BucketName"]
NoTagsFound == [type |-> "Exception", msg |-> "No tags returned"]
PrincipalTagMissing == [type |-> "ValueError", msg |-> "Could not derive a value"]
ClientError(code) == [type |-> "ClientError", msg |-> code]

Returned(id) == [raised |-> FALSE, value |-> id, error |-> NoError]
Raised(e) == [raised |-> TRUE, value |-> <<>>, error |-> e]
NoResult == [raised |-> FALSE, value |-> <<>>, error |-> NoError]

(***************************************************************************)
(* get_params: the Parameter Validator.                                    *)
(***************************************************************************)
\* the check left out
BucketNameMissing_Skipped(bucket_name) == FALSE

\* the check of line 25
BucketNameMissing(bucket_name) == bucket_name.t = "absent"

\* nothing stripped
StripEmpties_None(extra_principals) == extra_principals

\* line 34: [extra for extra in extra_principals if extra]
StripEmpties(extra_principals) ==
  SelectSeq(extra_principals, LAMBDA extra : Len(extra) > 0)

\* lines 28-34
NormalizeExtras(raw) ==
  LET extra_principals ==
        IF ~Truthy(raw) THEN <<>>
        ELSE IF raw.t # "list" THEN <<raw.s>>
        ELSE raw.l
  IN  StripEmpties(extra_principals)

\* 'true' compared without lower()
ParseRequireEncryption_CaseSensitive(raw) == StrOrDefault(raw, S_false) = S_true

\* lines 36-40
ParseRequireEncryption(raw) == Lower(StrOrDefault(raw, S_false)) = S_true

get_params(ev) ==
  LET parameters == ev.ResourceProperties
      bucket_name == parameters.BucketName
  IN  IF BucketNameMissing(bucket_name)
      THEN [raised |-> TRUE, error |-> MissingParameter,
            bucket_name |-> <<>>, extra_principals |-> <<>>,
            require_encryption |-> FALSE]
      ELSE [raised |-> FALSE, error |-> NoError,
            bucket_name |-> bucket_name.s,
            extra_principals |-> NormalizeExtras(parameters.ExtraPrincipalArns),
            require_encryption |-> ParseRequireEncryption(parameters.RequireEncryption)]

(***************************************************************************)
(* The Principal Resolver.                                                 *)
(***************************************************************************)
principal_tag_name == "aws:servicecatalog:provisioningPrincipalArn"

\* the emptiness check of line 58 left out
get_bucket_tags_NoEmptyCheck(response) ==
  IF response.error # NoError
  THEN [raised |-> TRUE, error |-> response.error, tags |-> <<>>]
  ELSE [raised |-> FALSE, error |-> NoError, tags |-> response.TagSet]

\* get_bucket_tags, after s3.get_bucket_tagging answered with `response`
get_bucket_tags(response) ==
  IF response.error # NoError
  THEN [raised |-> TRUE, error |-> response.error, tags |-> <<>>]
  ELSE IF ~response.hasTagSet \/ Len(response.TagSet) = 0
  THEN [raised |-> TRUE, error |-> NoTagsFound, tags |-> <<>>]
  ELSE [raised |-> FALSE, error |-> NoError, tags |-> response.TagSet]

\* the tags the loop of line 66 stops at
MatchingTags(tagset) == {i \in 1..Len(tagset) : tagset[i].Key = principal_tag_name}

get_principal_tag(tagset) ==
  IF MatchingTags(tagset) = {}
  THEN [raised |-> TRUE, error |-> PrincipalTagMissing, value |-> <<>>]
  ELSE LET first == CHOOSE i \in MatchingTags(tagset) :
                      \A j \in MatchingTags(tagset) : i <= j
       IN  [raised |-> FALSE, error |-> NoError, value |-> tagset[first].Value]

\* an owner that is among the extras is not added again
combine_principals_Dedup(principal, extra_principals) ==
  IF \E i \in 1..Len(extra_principals) : extra_principals[i] = principal
  THEN extra_principals
  ELSE extra_principals \o <<principal>>

combine_principals(principal, extra_principals) ==
  extra_principals \o <<principal>>

(***************************************************************************)
(* The Policy Builder.  json.dumps writes the dict in insertion order, so  *)
(* the document is the sequence of its statements and their fields.        *)
(***************************************************************************)
NoCondition == [present |-> FALSE, operator |-> "", key |-> "", value |-> ""]

Statement(sid, effect, principals, isList, actions, resource, condition) ==
  [Sid |-> sid, Effect |-> effect, Principal |-> [AWS |-> principals],
   Action |-> [list |-> isList, items |-> actions],
   Resource |-> resource, Condition |-> condition]

AdditionalStatements(principals, bucket_objects_arn) ==
  << Statement("DenyIncorrectEncryptionHeader", "Deny", principals,
               FALSE, <<"s3:PutObject">>, bucket_objects_arn,
               [present |-> TRUE, operator |-> "StringNotEquals",
                key |-> "s3:x-amz-server-side-encryption", value |-> "AES256"]),
     Statement("DenyUnEncryptedObjectUploads", "Deny", principals,
               FALSE, <<"s3:PutObject">>, bucket_objects_arn,
               [present |-> TRUE, operator |-> "Null",
                key |-> "s3:x-amz-server-side-encryption", value |-> "true"]) >>

create_policy_document(bucket_name, principals, require_encrypted) ==
  LET bucket_arn == S_arn_s3 \o bucket_name
      bucket_objects_arn == bucket_arn \o S_objects
      base ==
        << Statement("ReadAccess", "Allow", principals, TRUE,
                     <<"s3:ListBucket*", "s3:GetBucketLocation">>,
                     bucket_arn, NoCondition),
           Statement("WriteAccess", "Allow", principals, TRUE,
                     <<"s3:*Object*", "s3:*MultipartUpload*">>,
                     bucket_objects_arn, NoCondition) >>
  IN  [Version |-> "2012-10-17",
       Statement |-> IF require_encrypted
                     THEN base \o AdditionalStatements(principals, bucket_objects_arn)
                     ELSE base]

(***************************************************************************)
(* S3, the Bucket Store.  A call on a bucket S3 does not hold fails; any   *)
(* call may be refused (`refused`); and S3 may answer the removal of a     *)
(* policy that is not there with NoSuchBucketPolicy (`strict`) or with     *)
(* success.                                                                *)
(***************************************************************************)
B_b == <<"b">>
B_c == <<"c">>
StoreBuckets == {B_b, B_c}

s3_get_bucket_tagging(Bucket, refused) ==
  IF Bucket \notin StoreBuckets
  THEN [error |-> ClientError("NoSuchBucket"), hasTagSet |-> FALSE, TagSet |-> <<>>]
  ELSE IF refused
  THEN [error |-> ClientError("AccessDenied"), hasTagSet |-> FALSE, TagSet |-> <<>>]
  ELSE [error |-> NoError, hasTagSet |-> tags[Bucket].hasTagSet,
        TagSet |-> tags[Bucket].TagSet]

s3_put_bucket_policy(Bucket, Policy, refused) ==
  IF Bucket \notin StoreBuckets
  THEN [error |-> ClientError("NoSuchBucket"), policy |-> policy]
  ELSE IF refused
  THEN [error |-> ClientError("AccessDenied"), policy |-> policy]
  ELSE [error |-> NoError, policy |-> [policy EXCEPT ![Bucket] = <<Policy>>]]

s3_delete_bucket_policy(Bucket, refused, strict) ==
  IF Bucket \notin StoreBuckets
  THEN [error |-> ClientError("NoSuchBucket"), policy |-> policy]
  ELSE IF refused
  THEN [error |-> ClientError("AccessDenied"), policy |-> policy]
  ELSE IF policy[Bucket] = <<>> /\ strict
  THEN [error |-> ClientError("NoSuchBucketPolicy"), policy |-> policy]
  ELSE [error |-> NoError, policy |-> [policy EXCEPT ![Bucket] = <<>>]]

Call(op, Bucket, error) == [op |-> op, Bucket |-> Bucket, error |-> error]

(***************************************************************************)
(* The Lifecycle Reconciler: create (Create and Update) and delete.        *)
(***************************************************************************)
\* the Update branch of line 175 left out
CreateReturn_AlwaysNew(ev, ctx, bucket_name) ==
  S_BucketPolicy_ \o bucket_name \o S_underscore \o ctx.aws_request_id

\* lines 173-178
CreateReturn(ev, ctx, bucket_name) ==
  LET aws_request_id == ctx.aws_request_id
      physical_resource_id ==
        S_BucketPolicy_ \o bucket_name \o S_underscore \o aws_request_id
  IN  IF ev.RequestType = "Update"
      THEN ev.PhysicalResourceId
      ELSE physical_resource_id

\* line 187
DeleteReturn(ev) == ev.PhysicalResourceId

\* a refused put_bucket_policy is tried once more
AttachAndReturn_Retry(ev, ctx, bucket_name, policy_document, first, refused) ==
  LET put == s3_put_bucket_policy(bucket_name, policy_document, refused)
      again == s3_put_bucket_policy(bucket_name, policy_document, FALSE)
      one == first \o <<Call("put_bucket_policy", bucket_name, put.error)>>
      two == one \o <<Call("put_bucket_policy", bucket_name, again.error)>>
  IN  IF put.error = NoError
      THEN [result |-> Returned(CreateReturn(ev, ctx, bucket_name)),
            calls |-> one, policy |-> put.policy]
      ELSE IF again.error = NoError
      THEN [result |-> Returned(CreateReturn(ev, ctx, bucket_name)),
            calls |-> two, policy |-> again.policy]
      ELSE [result |-> Raised(again.error), calls |-> two, policy |-> policy]

\* what the handler does once attach_policy is reached (lines 172-178)
AttachAndReturn(ev, ctx, bucket_name, policy_document, first, refused) ==
  LET put == s3_put_bucket_policy(bucket_name, policy_document, refused)
      done == first \o <<Call("put_bucket_policy", bucket_name, put.error)>>
  IN  IF put.error # NoError
      THEN [result |-> Raised(put.error), calls |-> done, policy |-> policy]
      ELSE [result |-> Returned(CreateReturn(ev, ctx, bucket_name)),
            calls |-> done, policy |-> put.policy]

\* the body of create(event, context), lines 162-178
CreateRun(ev, ctx, tagsRefused, putRefused) ==
  LET p == get_params(ev)
      response == s3_get_bucket_tagging(p.bucket_name, tagsRefused)
      first == <<Call("get_bucket_tagging", p.bucket_name, response.error)>>
      t == get_bucket_tags(response)
      principal_arn == get_principal_tag(t.tags)
      principals == combine_principals(principal_arn.value, p.extra_principals)
      policy_document ==
        create_policy_document(p.bucket_name, principals, p.require_encryption)
  IN  IF p.raised
      THEN [result |-> Raised(p.error), calls |-> <<>>, policy |-> policy]
      ELSE IF t.raised
      THEN [result |-> Raised(t.error), calls |-> first, policy |-> policy]
      ELSE IF principal_arn.raised
      THEN [result |-> Raised(principal_arn.error), calls |-> first,
            policy |-> policy]
      ELSE AttachAndReturn(ev, ctx, p.bucket_name, policy_document, first,
                           putRefused)

\* the body of delete(event, context), lines 184-187
DeleteRun(ev, refused, strict) ==
  LET p == get_params(ev)
      del == s3_delete_bucket_policy(p.bucket_name, refused, strict)
      done == <<Call("delete_bucket_policy", p.bucket_name, del.error)>>
  IN  IF p.raised
      THEN [result |-> Raised(p.error), calls |-> <<>>, policy |-> policy]
      ELSE IF del.error # NoError
      THEN [result |-> Raised(del.error), calls |-> done, policy |-> policy]
      ELSE [result |-> Returned(DeleteReturn(ev)), calls |-> done,
            policy |-> del.policy]

(***************************************************************************)
(* Inputs.                                                                 *)
(***************************************************************************)
P0 == <<"P", "0">>
E1 == <<"E", "1">>
Blank == <<" ">>
Id_X == <<"X">>
Id_Y == <<"Y">>
Tokens == {<<"r", "1">>, <<"r", "2">>}

SeqsUpTo(S, n) == UNION {[1..k -> S] : k \in 0..n}

Tag(k, v) == [Key |-> k, Value |-> v]
OtherTag == Tag("Name", <<"n">>)
NoTagSet == [hasTagSet |-> FALSE, TagSet |-> <<>>]
TagSetOf(ts) == [hasTagSet |-> TRUE, TagSet |-> ts]
\* taggings of a bucket: no TagSet, an empty one, one without the principal
\* tag, one with it, and one holding the principal tag twice
Taggings ==
  { NoTagSet, TagSetOf(<<>>), TagSetOf(<<OtherTag>>),
    TagSetOf(<<OtherTag, Tag(principal_tag_name, P0)>>) }
OwnedTaggings ==
  { TagSetOf(<<OtherTag, Tag(principal_tag_name, P0)>>),
    TagSetOf(<<Tag(principal_tag_name, E1), Tag(principal_tag_name, P0)>>) }

Event(type, id, props) ==
  [RequestType |-> type, PhysicalResourceId |-> id, ResourceProperties |-> props]
NoEvent == Event("", <<>>, [BucketName |-> Absent, ExtraPrincipalArns |-> Absent,
                            RequireEncryption |-> Absent])
NoContext == [aws_request_id |-> <<>>]

\* a Create carries no PhysicalResourceId; Update and Delete carry the prior id
EventsOver(types, props) ==
  {Event(ty, id, pr) : ty \in types \ {"Create"}, id \in {Id_X, Id_Y}, pr \in props}
  \cup {Event("Create", <<>>, pr) : ty \in types \cap {"Create"}, pr \in props}

\* the events of the lifecycle specification
Events ==
  EventsOver({"Create", "Update", "Delete"},
    [BucketName : {Absent, Str(<<>>), Str(B_b), Str(B_c)},
     ExtraPrincipalArns : {Absent, List(<<E1>>)},
     RequireEncryption : {Absent, Str(S_true)}])

\* the events of the property specification: every shape of ExtraPrincipalArns
\* and RequireEncryption, on one bucket
ExtraShapes ==
  {Absent, Str(<<>>), Str(E1), Str(Blank)}
  \cup {List(l) : l \in SeqsUpTo({<<>>, Blank, E1}, MaxExtras)}
EncryptionShapes ==
  {Absent, Str(S_true), Str(<<"T", "r", "u", "E">>), Str(<<"T", "R", "U", "E">>),
   Str(S_false), Str(<<>>), Str(<<" ", "t", "r", "u", "e">>),
   Str(<<"y", "e", "s">>)}
PropertyEvents ==
  EventsOver({"Create", "Update"},
    [BucketName : {Str(B_b)},
     ExtraPrincipalArns : ExtraShapes,
     RequireEncryption : EncryptionShapes])

(***************************************************************************)
(* Actions.                                                                *)
(***************************************************************************)
\* handler(event, context) is entered with a new event
Invoke(evs) ==
  /\ pc = "idle"
  /\ \E ev \in evs, token \in Tokens :
       /\ event' = ev
       /\ context' = [aws_request_id |-> token]
  /\ pc' = "invoked"
  /\ deliveries' = 1
  /\ UNCHANGED <<tags, policy, result, calls, prev>>

\* the orchestrator delivers the event it delivered last once more
Redeliver ==
  /\ pc = "returned"
  /\ deliveries < MaxDeliveries
  /\ pc' = "invoked"
  /\ deliveries' = deliveries + 1
  /\ prev' = result
  /\ result' = NoResult
  /\ calls' = <<>>
  /\ UNCHANGED <<tags, policy, event, context>>

create ==
  /\ pc = "invoked"
  /\ event.RequestType \in {"Create", "Update"}
  /\ \E tagsRefused \in BOOLEAN, putRefused \in BOOLEAN :
       LET run == CreateRun(event, context, tagsRefused, putRefused)
       IN  /\ result' = run.result
           /\ calls' = run.calls
           /\ policy' = run.policy
  /\ pc' = "returned"
  /\ UNCHANGED <<tags, event, context, deliveries, prev>>

delete ==
  /\ pc = "invoked"
  /\ event.RequestType = "Delete"
  /\ \E refused \in BOOLEAN, strict \in BOOLEAN :
       LET run == DeleteRun(event, refused, strict)
       IN  /\ result' = run.result
           /\ calls' = run.calls
           /\ policy' = run.policy
  /\ pc' = "returned"
  /\ UNCHANGED <<tags, event, context, deliveries, prev>>

\* handler() is left: the helper has sent the result to the orchestrator
Respond ==
  /\ pc = "returned"
  /\ pc' = "idle"
  /\ event' = NoEvent
  /\ context' = NoContext
  /\ result' = NoResult
  /\ calls' = <<>>
  /\ deliveries' = 0
  /\ prev' = NoResult
  /\ UNCHANGED <<tags, policy>>

\* the tags of a bucket are edited, between invocations
SetTags ==
  /\ pc = "idle"
  /\ \E b \in StoreBuckets, t \in Taggings : tags' = [tags EXCEPT ![b] = t]
  /\ UNCHANGED <<policy, pc, event, context, result, calls, deliveries, prev>>

InitRest ==
  /\ policy = [b \in StoreBuckets |-> <<>>]
  /\ pc = "idle"
  /\ event = NoEvent
  /\ context = NoContext
  /\ result = NoResult
  /\ calls = <<>>
  /\ deliveries = 0
  /\ prev = NoResult

Init ==
  /\ tags = [b \in StoreBuckets |-> NoTagSet]
  /\ InitRest

Next ==
  \/ Invoke(Events)
  \/ Redeliver
  \/ create
  \/ delete
  \/ Respond
  \/ SetTags

Spec == Init /\ [][Next]_vars

\* the property specification: buckets that carry the principal tag
PropertyInit ==
  /\ tags \in [StoreBuckets -> OwnedTaggings]
  /\ InitRest

PropertyNext ==
  \/ Invoke(PropertyEvents)
  \/ create
  \/ Respond

PropertySpec == PropertyInit /\ [][PropertyNext]_vars

(***************************************************************************)
(* Properties.                                                             *)
(***************************************************************************)
Props == event.ResourceProperties
Returning == pc = "returned"
IsCreateOrUpdate == event.RequestType \in {"Create", "Update"}
\* the name the handler works on, when BucketName is there
Bucket == Props.BucketName.s
Ops == [i \in 1..Len(calls) |-> calls[i].op]
HasOp(op) == \E i \in 1..Len(calls) : calls[i].op = op
\* the invocation returned an id
Succeeded == Returning /\ ~result.raised
\* the document S3 holds for the bucket of the event
Attached == policy[Bucket][1]
StatementsOf(doc) == {doc.Statement[i] : i \in 1..Len(doc.Statement)}
Sids(doc) == [i \in 1..Len(doc.Statement) |-> doc.Statement[i].Sid]
BucketArn == S_arn_s3 \o Bucket
ObjectsArn == S_arn_s3 \o Bucket \o S_objects

\* C1: when the resource properties hold no BucketName, the invocation fails
\* with the missing-parameter error whatever the request type, it has made no
\* S3 call, and the step of the handler leaves every stored policy as it was.
C1_NoBucketNameNoCall ==
  /\ [](Returning /\ Props.BucketName.t = "absent"
          => /\ result = Raised(MissingParameter)
             /\ calls = <<>>)
  /\ [][pc = "invoked" /\ Props.BucketName.t = "absent" => policy' = policy]_vars

C1_Witness ==
  /\ Returning
  /\ event.RequestType = "Delete"
  /\ Props.BucketName.t = "absent"
  /\ result.raised
  /\ policy[B_b] # <<>>

\* C2: a successful Update and a successful Delete return the event's
\* PhysicalResourceId; a successful Create returns "BucketPolicy_" + bucket
\* name + "_" + request id, which contains the bucket name.
C2_ResourceIdentity ==
  Succeeded =>
    /\ event.RequestType \in {"Update", "Delete"}
         => result.value = event.PhysicalResourceId
    /\ event.RequestType = "Create"
         => /\ result.value =
                 S_BucketPolicy_ \o Bucket \o S_underscore \o context.aws_request_id
            /\ Contains(result.value, Bucket)
            /\ Contains(result.value, context.aws_request_id)

C2_Witness ==
  /\ Succeeded
  /\ event.RequestType = "Update"
  /\ event.PhysicalResourceId = Id_X
  /\ Bucket = B_c
  /\ Props.ExtraPrincipalArns # Absent
  /\ Props.RequireEncryption # Absent

\* C3: a Delete that S3 answers with "no policy present" succeeds: it returns
\* the prior PhysicalResourceId, raises nothing, and the bucket has no policy.
C3_DeleteOfAbsentPolicySucceeds ==
  ( /\ Returning
    /\ event.RequestType = "Delete"
    /\ HasOp("delete_bucket_policy")
    /\ calls[1].error = ClientError("NoSuchBucketPolicy") )
  => /\ result = Returned(event.PhysicalResourceId)
     /\ policy[Bucket] = <<>>

\* no S3 call of the invocation was refused for a reason other than the state
\* of the bucket's policy
NothingRefused ==
  \A i \in 1..Len(calls) :
    calls[i].error \in {NoError, ClientError("NoSuchBucketPolicy")}

\* the end state of a delivery, as C4 gives it
EndState ==
  IF event.RequestType = "Delete"
  THEN policy[Bucket] = <<>>
  ELSE policy[Bucket] =
         << create_policy_document(
              Bucket,
              get_params(event).extra_principals
                \o <<get_principal_tag(tags[Bucket].TagSet).value>>,
              get_params(event).require_encryption) >>

\* C4: an event that succeeded and is delivered again, with the tags as they
\* were and no call refused, has the outcome of the delivery before (the same
\* id, no error) and leaves S3 in the end state of a single delivery.
C4_RedeliveryIdempotent ==
  (Returning /\ deliveries >= 2 /\ ~prev.raised /\ NothingRefused)
  => /\ result = prev
     /\ EndState

\* C4 without Delete: what holds of Create and Update
C4_CreateUpdateRedelivery ==
  (Returning /\ deliveries >= 2 /\ ~prev.raised /\ NothingRefused
     /\ IsCreateOrUpdate)
  => /\ result = prev
     /\ EndState

C4_CreateUpdateWitness ==
  /\ Returning /\ deliveries >= 3 /\ ~prev.raised /\ NothingRefused
  /\ event.RequestType = "Create" /\ ~result.raised

\* "true" in any mixture of upper and lower case
CaseInsensitiveTrue(x) ==
  /\ x.t = "str"
  /\ Len(x.s) = 4
  /\ x.s[1] \in {"t", "T"}
  /\ x.s[2] \in {"r", "R"}
  /\ x.s[3] \in {"u", "U"}
  /\ x.s[4] \in {"e", "E"}

\* C5: the attached document has the statements ReadAccess (on the bucket) and
\* WriteAccess (on its objects) and no more, unless RequireEncryption is
\* "true" in any case: then DenyIncorrectEncryptionHeader and
\* DenyUnEncryptedObjectUploads follow, both Deny and on the objects.
C5_Statements ==
  (Succeeded /\ IsCreateOrUpdate) =>
    LET st == Attached.Statement
    IN  /\ Len(st) >= 2
        /\ st[1].Sid = "ReadAccess" /\ st[1].Resource = BucketArn
        /\ st[2].Sid = "WriteAccess" /\ st[2].Resource = ObjectsArn
        /\ st[1].Effect = "Allow" /\ st[2].Effect = "Allow"
        /\ IF CaseInsensitiveTrue(Props.RequireEncryption)
           THEN /\ Sids(Attached) = <<"ReadAccess", "WriteAccess",
                                      "DenyIncorrectEncryptionHeader",
                                      "DenyUnEncryptedObjectUploads">>
                /\ \A i \in {3, 4} : /\ st[i].Resource = ObjectsArn
                                     /\ st[i].Effect = "Deny"
           ELSE Sids(Attached) = <<"ReadAccess", "WriteAccess">>

C5_Witness ==
  /\ Succeeded
  /\ IsCreateOrUpdate
  /\ Props.RequireEncryption = Str(<<"T", "r", "u", "E">>)
  /\ Len(Attached.Statement) = 4

\* the owner: the value of the first principal tag of the bucket
Owner ==
  LET ts == tags[Bucket].TagSet
      at == CHOOSE i \in 1..Len(ts) :
              /\ ts[i].Key = principal_tag_name
              /\ \A j \in 1..(i - 1) : ts[j].Key # principal_tag_name
  IN  ts[at].Value

\* C6: every statement of the attached document carries the normalized extras
\* in their order, then the owner: one entry more than the extras, the extras
\* where they were and the owner last, also when the owner is among the extras.
C6_PrincipalsOfEveryStatement ==
  (Succeeded /\ IsCreateOrUpdate) =>
    LET extras == get_params(event).extra_principals
    IN  \A st \in StatementsOf(Attached) :
          LET principals == st.Principal.AWS
          IN  /\ Len(principals) = Len(extras) + 1
              /\ \A i \in 1..Len(extras) : principals[i] = extras[i]
              /\ principals[Len(principals)] = Owner

C6_Witness ==
  /\ Succeeded
  /\ IsCreateOrUpdate
  /\ Len(Attached.Statement) = 4
  /\ get_params(event).extra_principals = <<Blank, E1>>
  /\ Owner = E1
  /\ Attached.Statement[4].Principal.AWS = <<Blank, E1, E1>>

\* get_bucket_tagging was called and answered
TagsAnswered ==
  /\ Len(calls) >= 1
  /\ calls[1].op = "get_bucket_tagging"
  /\ calls[1].error = NoError
NoTags(b) == ~tags[b].hasTagSet \/ tags[b].TagSet = <<>>
NoPrincipalTag(b) ==
  /\ ~NoTags(b)
  /\ \A i \in 1..Len(tags[b].TagSet) : tags[b].TagSet[i].Key # principal_tag_name

\* C7: on Create/Update, a tagging without tags fails the invocation with one
\* error and a tagging without the principal tag with an error of another
\* type; in both cases put_bucket_policy is not called, no id is returned and
\* the stored policies stay as they were.
C7_OwnerResolutionFailures ==
  /\ []((Returning /\ IsCreateOrUpdate /\ TagsAnswered) =>
          /\ NoTags(Bucket)
               => result = Raised(NoTagsFound) /\ ~HasOp("put_bucket_policy")
          /\ NoPrincipalTag(Bucket)
               => result = Raised(PrincipalTagMissing)
                  /\ ~HasOp("put_bucket_policy")
          /\ NoTagsFound.type # PrincipalTagMissing.type)
  /\ [][( /\ pc = "invoked"
          /\ IsCreateOrUpdate
          /\ Props.BucketName.t # "absent"
          /\ Bucket \in StoreBuckets
          /\ (NoTags(Bucket) \/ NoPrincipalTag(Bucket)) )
        => policy' = policy]_vars

C7_Witness ==
  /\ Returning /\ IsCreateOrUpdate /\ TagsAnswered
  /\ NoPrincipalTag(Bucket)
  /\ result.error.type = "ValueError"
  /\ policy[Bucket] # <<>>

\* C8: a BucketName that is the empty string fails the validation with the
\* missing-parameter error, and no S3 call is made with an empty bucket name.
C8_EmptyBucketNameRejected ==
  (Returning /\ Props.BucketName = Str(<<>>))
  => /\ result = Raised(MissingParameter)
     /\ \A i \in 1..Len(calls) : calls[i].Bucket # <<>>

RECURSIVE Without(_, _)
\* the entries of l that are not in `dropped`, in their order
Without(l, dropped) ==
  IF l = <<>> THEN <<>>
  ELSE IF Head(l) \in dropped THEN Without(Tail(l), dropped)
  ELSE <<Head(l)>> \o Without(Tail(l), dropped)

\* the extras of the attached document: its principals but the last
AttachedExtras ==
  LET principals == Attached.Statement[1].Principal.AWS
  IN  SubSeq(principals, 1, Len(principals) - 1)

BlankStrings == {<<>>, <<" ">>, <<" ", " ">>}

\* C9 as claimed: the extras that reach the attached policy are none for an
\* absent or empty ExtraPrincipalArns, the scalar for a scalar, and for a list
\* its entries without the empty and the whitespace-only ones.
C9_BlankEntriesRemoved ==
  (Succeeded /\ IsCreateOrUpdate) =>
    LET raw == Props.ExtraPrincipalArns
    IN  /\ ~Truthy(raw) => AttachedExtras = <<>>
        /\ (Truthy(raw) /\ raw.t = "str") => AttachedExtras = <<raw.s>>
        /\ (Truthy(raw) /\ raw.t = "list")
             => /\ AttachedExtras = Without(raw.l, BlankStrings)
                /\ \A i \in 1..Len(AttachedExtras) : ~IsBlank(AttachedExtras[i])

\* C9 amended: for a list, the entries without the empty ones; whitespace-only
\* entries stay.  No empty string reaches the attached policy by the extras.
C9_EmptyEntriesRemoved ==
  (Succeeded /\ IsCreateOrUpdate) =>
    LET raw == Props.ExtraPrincipalArns
    IN  /\ ~Truthy(raw) => AttachedExtras = <<>>
        /\ (Truthy(raw) /\ raw.t = "str") => AttachedExtras = <<raw.s>>
        /\ (Truthy(raw) /\ raw.t = "list")
             => AttachedExtras = Without(raw.l, {<<>>})
        /\ \A i \in 1..Len(AttachedExtras) : AttachedExtras[i] # <<>>

C9_Witness ==
  /\ Succeeded
  /\ IsCreateOrUpdate
  /\ Props.ExtraPrincipalArns = List(<<<<>>, Blank>>)
  /\ AttachedExtras = <<Blank>>

\* C10: a Create/Update calls get_bucket_tagging at most once, then
\* put_bucket_policy at most once and only with a valid BucketName, the tags
\* answered and an owner found, and never delete_bucket_policy; a Delete calls
\* delete_bucket_policy at most once, with a valid BucketName, and nothing
\* else; a call that fails is the last of the invocation, and the invocation
\* raises its error and returns no id.
C10_CallSequence ==
  Returning =>
    /\ IsCreateOrUpdate =>
         /\ Ops \in {<<>>, <<"get_bucket_tagging">>,
                     <<"get_bucket_tagging", "put_bucket_policy">>}
         /\ HasOp("put_bucket_policy") =>
              /\ calls[1].error = NoError
              /\ ~NoTags(Bucket) /\ ~NoPrincipalTag(Bucket)
    /\ event.RequestType = "Delete" => Ops \in {<<>>, <<"delete_bucket_policy">>}
    /\ calls # <<>> => Props.BucketName.t # "absent"
    /\ \A i \in 1..Len(calls) :
         /\ calls[i].Bucket = Bucket
         /\ calls[i].error # NoError =>
              /\ i = Len(calls)
              /\ result = Raised(calls[i].error)

C10_Witness ==
  /\ Returning
  /\ event.RequestType = "Update"
  /\ Ops = <<"get_bucket_tagging", "put_bucket_policy">>
  /\ calls[2].error = ClientError("AccessDenied")
  /\ result.raised

====
